---- MODULE Spec2Model ----
(***************************************************************************)
(* The Update Form of the Convex proof of concept (UpdatePage.jsx) and the *)
(* record store behind it (convex/functions.ts).                           *)
(*                                                                         *)
(* Text is modelled as a sequence of one-character strings so that trim(), *)
(* Number() and toString() are computed, not assumed.  Messages shown to   *)
(* the user are fixed literals and are kept as TLA+ strings.               *)
(***************************************************************************)
EXTENDS Integers, Sequences, FiniteSets, TLC

(***************************************************************************)
(* Bounds of the model.                                                    *)
(***************************************************************************)
MaxCalls == 2        \* mutation invocations in one behaviour

(***************************************************************************)
(* The texts a user types: empty, blank, plain and padded names; empty,    *)
(* blank, numeric and non-numeric values.                                  *)
(***************************************************************************)
NameTexts == {<<>>, <<" ">>, <<"a">>, <<" ", "a", " ">>}
ValueTexts == {<<>>, <<" ">>, <<"2">>, <<"a">>}

(***************************************************************************)
(* JavaScript built-ins used by the handlers.                              *)
(***************************************************************************)
IsSpace(c) == c = " "

RECURSIVE TrimStart(_)
TrimStart(s) ==
    IF s # <<>> /\ IsSpace(Head(s)) THEN TrimStart(Tail(s)) ELSE s

RECURSIVE TrimEnd(_)
TrimEnd(s) ==
    IF s # <<>> /\ IsSpace(s[Len(s)])
    THEN TrimEnd(SubSeq(s, 1, Len(s) - 1))
    ELSE s

\* String.prototype.trim
Trim(s) == TrimEnd(TrimStart(s))

Digits == <<"0", "1", "2", "3", "4", "5", "6", "7", "8", "9">>
IsDigit(c) == \E d \in 1..10 : Digits[d] = c
DigitVal(c) == (CHOOSE d \in 1..10 : Digits[d] = c) - 1
AllDigits(s) == s # <<>> /\ \A i \in 1..Len(s) : IsDigit(s[i])

RECURSIVE DecVal(_)
DecVal(s) ==
    IF s = <<>> THEN 0
    ELSE DecVal(SubSeq(s, 1, Len(s) - 1)) * 10 + DigitVal(s[Len(s)])

\* Number(text): surrounding white space is ignored, the empty text is 0,
\* an optionally signed decimal literal is its value, anything else is NaN.
\* (Texts of the model hold no '.', 'e', 'x' or "Infinity".)
Number(s) ==
    LET t == Trim(s) IN
    IF t = <<>> THEN [nan |-> FALSE, val |-> 0]
    ELSE IF AllDigits(t) THEN [nan |-> FALSE, val |-> DecVal(t)]
    ELSE IF Head(t) = "-" /\ AllDigits(Tail(t))
         THEN [nan |-> FALSE, val |-> 0 - DecVal(Tail(t))]
    ELSE IF Head(t) = "+" /\ AllDigits(Tail(t))
         THEN [nan |-> FALSE, val |-> DecVal(Tail(t))]
    ELSE [nan |-> TRUE, val |-> 0]

\* isNaN(Number(text))
isNaN(n) == n.nan

RECURSIVE NatToString(_)
NatToString(n) ==
    IF n < 10 THEN <<Digits[n + 1]>>
    ELSE NatToString(n \div 10) \o <<Digits[(n % 10) + 1]>>

\* Number.prototype.toString of an integer
toString(n) == IF n < 0 THEN <<"-">> \o NatToString(0 - n) ELSE NatToString(n)

(***************************************************************************)
(* The record store (table mockData) and its two functions.                *)
(***************************************************************************)
Ids == <<"r1", "r2">>

\* description is optional: <<>> is absent, <<d>> is the text d
SeedRecord(i) ==
    IF i = 1
    THEN [_id |-> Ids[1], name |-> <<"a">>, value |-> 1,
          description |-> << <<"d">> >>, _creationTime |-> 1]
    ELSE [_id |-> Ids[i], name |-> <<"b">>, value |-> 10,
          description |-> <<>>, _creationTime |-> i]

\* the tables the seeding script may leave behind: the first k records
SeedStore(k) == [i \in 1..k |-> SeedRecord(i)]
SeedStores == {SeedStore(k) : k \in 0..Len(Ids)}

VARIABLES
    store,           \* the table, in creation order
    mockData,        \* useQuery result of the form: undefined or an array
    selectedId, name, value, isSubmitting, successMessage, errorMessage,
    mounted,         \* the form instance is on screen
    timers,          \* pending setTimeout callbacks of the form
    requests,        \* mutation calls not yet settled
    nCalls,          \* mutation calls invoked so far
    remoteData       \* useQuery result of a page open in another browser

formVars == <<selectedId, name, value, isSubmitting, successMessage, errorMessage>>
vars == <<store, mockData, selectedId, name, value, isSubmitting,
          successMessage, errorMessage, mounted, timers, requests, nCalls, remoteData>>

\* getMockData: every document of the table
getMockData(db) == db

\* updateMockData: ctx.db.patch(id, {name, value}); returns id
RowOf(db, id) == CHOOSE i \in 1..Len(db) : db[i]._id = id
HasRow(db, id) == \E i \in 1..Len(db) : db[i]._id = id
\* ctx.db.insert in the place of ctx.db.patch: a new document
updateMockDataInsert(db, args) ==
    Append(db, [_id |-> "r3", name |-> args.name, value |-> args.value,
                description |-> <<>>, _creationTime |-> 3])
\* ctx.db.replace in the place of ctx.db.patch: fields not given are dropped
updateMockDataReplace(db, args) ==
    [db EXCEPT ![RowOf(db, args.id)] =
        [@ EXCEPT !.name = args.name, !.value = args.value, !.description = <<>>]]
updateMockData(db, args) ==
    [db EXCEPT ![RowOf(db, args.id)] =
        [@ EXCEPT !.name = args.name, !.value = args.value]]
\* the value the mutation returns
updateMockDataResult(args) == args.id

(***************************************************************************)
(* Messages.                                                               *)
(***************************************************************************)
MsgNoSelection == "Please select a record to update."
MsgEmptyName == "Name cannot be empty."
MsgBadValue == "Value must be a valid number."
MsgSuccess == "Record updated successfully! Check the View page to see the change."
FailureReasons == {"Network error", "Server Error"}
MsgFailed(r) == "Failed to update record: " \o r

Undefined == [defined |-> FALSE, items |-> <<>>]
Loaded(rows) == [defined |-> TRUE, items |-> rows]

Init ==
    /\ store \in SeedStores
    /\ mockData = Undefined
    /\ selectedId = ""
    /\ name = <<>>
    /\ value = <<>>
    /\ isSubmitting = FALSE
    /\ successMessage = ""
    /\ errorMessage = ""
    /\ mounted = TRUE
    /\ timers = 0
    /\ requests = <<>>
    /\ nCalls = 0
    /\ remoteData = Undefined

(***************************************************************************)
(* Rendering.                                                              *)
(***************************************************************************)
Loading == mockData.defined = FALSE
EmptyState == mockData.defined /\ Len(mockData.items) = 0
FormRendered == mounted /\ mockData.defined /\ Len(mockData.items) # 0

selectDisabledNever == FALSE
selectDisabled == isSubmitting
nameDisabledSubmittingOnly == isSubmitting
nameDisabled == selectedId = "" \/ isSubmitting
valueDisabledNoSelectionOnly == selectedId = ""
valueDisabled == selectedId = "" \/ isSubmitting
\* a button that is disabled while submitting only
submitDisabledSubmittingOnly == isSubmitting
\* a button that is also disabled when the selected record has left the set
submitDisabledStaleSelection ==
    \/ selectedId = ""
    \/ isSubmitting
    \/ ~\E i \in 1..Len(mockData.items) : mockData.items[i]._id = selectedId
submitDisabledNoSelectionOnly == selectedId = ""
submitDisabled == selectedId = "" \/ isSubmitting

\* a selector that offers every id, rendered or not
OptionsEveryId == {""} \cup {Ids[i] : i \in 1..Len(Ids)}
\* values of the <option> elements
Options == {""} \cup {mockData.items[i]._id : i \in 1..Len(mockData.items)}

\* the second paragraph of each page's empty state
UpdateEmptyText == "Please seed the database first using the data seeding script."
ViewEmptyText == "Use the Update page to add some data."

Controls == {"record-select", "name", "value", "submit-button"}

\* what UpdatePage returns: the elements and texts on screen
UpdatePageRenderNoEmptyCheck ==
    IF ~mockData.defined THEN {"loading-container"}
    ELSE {"page-description", "info-box"} \cup Controls
         \cup (IF errorMessage # "" THEN {"error-message"} ELSE {})
         \cup (IF successMessage # "" THEN {"success-message"} ELSE {})
         \cup (IF selectedId # "" THEN {"selected-record-info"} ELSE {})
UpdatePageRender ==
    IF ~mockData.defined THEN {"loading-container"}
    ELSE IF Len(mockData.items) = 0 THEN {"empty-state", UpdateEmptyText}
    ELSE {"page-description", "info-box"} \cup Controls
         \cup (IF errorMessage # "" THEN {"error-message"} ELSE {})
         \cup (IF successMessage # "" THEN {"success-message"} ELSE {})
         \cup (IF selectedId # "" THEN {"selected-record-info"} ELSE {})

\* what ViewPage returns for the result of its useQuery
ViewPageRenderFalsyCheck(data) ==
    IF ~data.defined \/ Len(data.items) = 0 THEN {"loading-container"}
    ELSE {"page-description", "data-table", "info-box"}
ViewPageRender(data) ==
    IF ~data.defined THEN {"loading-container"}
    ELSE IF Len(data.items) = 0 THEN {"empty-state", ViewEmptyText}
    ELSE {"page-description", "data-table", "info-box"}

\* {item.description ?? <em>None</em>}: the placeholder is an <em> element
None == <<"N", "o", "n", "e">>
DescriptionCellFalsy(description) ==
    IF description = <<>> \/ description[1] = <<>>
    THEN [em |-> TRUE, text |-> None]
    ELSE [em |-> FALSE, text |-> description[1]]
DescriptionCell(description) ==
    IF description = <<>>
    THEN [em |-> TRUE, text |-> None]
    ELSE [em |-> FALSE, text |-> description[1]]

\* one <tr> of the Display View: the name, value and description cells
ViewRow(item) ==
    [key |-> item._id, name |-> item.name, value |-> toString(item.value),
     description |-> DescriptionCell(item.description)]
\* mockData.map(...) keeps the first row only
ViewTableRowsFirstOnly(data) ==
    IF ~data.defined \/ Len(data.items) = 0 THEN <<>>
    ELSE <<ViewRow(data.items[1])>>
\* the <tbody> of the Display View, when the table is rendered
ViewTableRows(data) ==
    IF ~data.defined \/ Len(data.items) = 0 THEN <<>>
    ELSE [i \in 1..Len(data.items) |-> ViewRow(data.items[i])]

\* the <option> elements of the selector after the placeholder
OptionRows(data) ==
    IF ~data.defined \/ Len(data.items) = 0 THEN <<>>
    ELSE [i \in 1..Len(data.items) |->
            [key |-> data.items[i]._id, name |-> data.items[i].name,
             value |-> toString(data.items[i].value)]]

\* the description shown under "Current Record Details"
RecordDetails ==
    IF ~FormRendered \/ selectedId = "" THEN <<>>
    ELSE LET IsSelected(item) == item._id = selectedId
             shown == SelectSeq(mockData.items, IsSelected) IN
         [i \in 1..Len(shown) |-> DescriptionCell(shown[i].description)]

(***************************************************************************)
(* The subscription delivers the current result of getMockData.            *)
(***************************************************************************)
\* a form that reloads its drafts from every new snapshot
DeliverRefreshesDrafts ==
    LET rows == getMockData(store)
        selectedRecord == IF \E i \in 1..Len(rows) : rows[i]._id = selectedId
                          THEN <<rows[CHOOSE i \in 1..Len(rows) : rows[i]._id = selectedId]>>
                          ELSE <<>> IN
    /\ mounted
    /\ mockData # Loaded(rows)
    /\ mockData' = Loaded(rows)
    /\ IF selectedRecord # <<>>
       THEN /\ name' = selectedRecord[1].name
            /\ value' = toString(selectedRecord[1].value)
       ELSE UNCHANGED <<name, value>>
    /\ UNCHANGED <<store, selectedId, isSubmitting, successMessage, errorMessage,
                   mounted, timers, requests, nCalls, remoteData>>
Deliver ==
    /\ mounted
    /\ mockData # Loaded(getMockData(store))
    /\ mockData' = Loaded(getMockData(store))
    /\ UNCHANGED <<store, formVars, mounted, timers, requests, nCalls, remoteData>>

\* once the router has left /update the Display View is on screen; its
\* useQuery starts undefined and receives the same deliveries
DeliverView ==
    /\ ~mounted
    /\ mockData # Loaded(getMockData(store))
    /\ mockData' = Loaded(getMockData(store))
    /\ UNCHANGED <<store, formVars, mounted, timers, requests, nCalls, remoteData>>

(***************************************************************************)
(* The page takes whatever array useQuery returns: the table may be        *)
(* changed from outside this program, and the tests inject arrays.         *)
(***************************************************************************)
\* the first record as changed from outside: its description is now the
\* empty string
ChangedRecord ==
    [SeedRecord(1) EXCEPT !.name = <<"b">>, !.value = 2, !.description = << <<>> >>]
SnapshotRows ==
    {<<>>, <<SeedRecord(2)>>, <<SeedRecord(1), SeedRecord(2)>>,
     <<ChangedRecord, SeedRecord(2)>>}

DeliverAnyResetsSelection ==
    \E rows \in SnapshotRows :
        /\ mockData # Loaded(rows)
        /\ mockData' = Loaded(rows)
        /\ selectedId' = IF \E i \in 1..Len(rows) : rows[i]._id = selectedId
                         THEN selectedId ELSE ""
        /\ UNCHANGED <<store, name, value, isSubmitting, successMessage,
                       errorMessage, mounted, timers, requests, nCalls, remoteData>>
DeliverAny ==
    \E rows \in SnapshotRows :
        /\ mockData # Loaded(rows)
        /\ mockData' = Loaded(rows)
        /\ UNCHANGED <<store, formVars, mounted, timers, requests, nCalls, remoteData>>

(***************************************************************************)
(* handleRecordSelect                                                      *)
(***************************************************************************)
Find(rows, id) ==
    IF \E i \in 1..Len(rows) : rows[i]._id = id
    THEN <<rows[CHOOSE i \in 1..Len(rows) :
                   rows[i]._id = id /\ \A j \in 1..(i - 1) : rows[j]._id # id]>>
    ELSE <<>>

\* a handler that resets the drafts when the id is not found
handleRecordSelectResetsDrafts(id) ==
    LET selectedRecord == Find(mockData.items, id) IN
    /\ selectedId' = id
    /\ IF selectedRecord # <<>>
       THEN /\ name' = selectedRecord[1].name
            /\ value' = toString(selectedRecord[1].value)
            /\ successMessage' = ""
            /\ errorMessage' = ""
       ELSE /\ name' = <<>>
            /\ value' = <<>>
            /\ UNCHANGED <<successMessage, errorMessage>>
    /\ UNCHANGED <<store, mockData, isSubmitting, mounted, timers, requests, nCalls,
                   remoteData>>
handleRecordSelectKeepsMessages(id) ==
    LET selectedRecord == Find(mockData.items, id) IN
    /\ selectedId' = id
    /\ IF selectedRecord # <<>>
       THEN /\ name' = selectedRecord[1].name
            /\ value' = toString(selectedRecord[1].value)
       ELSE UNCHANGED <<name, value>>
    /\ UNCHANGED <<store, mockData, isSubmitting, successMessage, errorMessage,
                   mounted, timers, requests, nCalls, remoteData>>
handleRecordSelect(id) ==
    LET selectedRecord == Find(mockData.items, id) IN
    /\ selectedId' = id
    /\ IF selectedRecord # <<>>
       THEN /\ name' = selectedRecord[1].name
            /\ value' = toString(selectedRecord[1].value)
            /\ successMessage' = ""
            /\ errorMessage' = ""
       ELSE UNCHANGED <<name, value, successMessage, errorMessage>>
    /\ UNCHANGED <<store, mockData, isSubmitting, mounted, timers, requests, nCalls, remoteData>>

SelectRecord ==
    /\ FormRendered
    /\ ~selectDisabled
    /\ \E id \in Options : handleRecordSelect(id)

\* a change event whose value is no rendered option reaches the handler
SelectEvent ==
    /\ FormRendered
    /\ \E id \in OptionsEveryId : handleRecordSelect(id)

EditName ==
    /\ FormRendered
    /\ ~nameDisabled
    /\ \E text \in NameTexts : name' = text
    /\ UNCHANGED <<store, mockData, selectedId, value, isSubmitting,
                   successMessage, errorMessage, mounted, timers, requests, nCalls, remoteData>>

EditValue ==
    /\ FormRendered
    /\ ~valueDisabled
    /\ \E text \in ValueTexts : value' = text
    /\ UNCHANGED <<store, mockData, selectedId, name, isSubmitting,
                   successMessage, errorMessage, mounted, timers, requests, nCalls, remoteData>>

(***************************************************************************)
(* handleSubmit, up to the await                                           *)
(***************************************************************************)
\* !selectedId
NoSelectionAlwaysFalse == FALSE
NoSelection == selectedId = ""

\* !name.trim()
EmptyNameUntrimmed == name = <<>>
EmptyName == Trim(name) = <<>>

\* value === "" || isNaN(Number(value))
\* value.trim() === "" || isNaN(Number(value))
BadValueBlank == Trim(value) = <<>> \/ isNaN(Number(value))
BadValueEmptyOnly == value = <<>>
BadValue == value = <<>> \/ isNaN(Number(value))

\* the argument of updateMockData(...)
MutationArgsUntrimmed ==
    [id |-> selectedId, name |-> name, value |-> Number(value).val]
MutationArgs ==
    [id |-> selectedId, name |-> Trim(name), value |-> Number(value).val]

\* setErrorMessage(msg); return
RejectClearsSuccess(msg) ==
    /\ errorMessage' = msg
    /\ successMessage' = ""
    /\ UNCHANGED <<store, mockData, selectedId, name, value, isSubmitting,
                   mounted, timers, requests, nCalls, remoteData>>
Reject(msg) ==
    /\ errorMessage' = msg
    /\ UNCHANGED <<store, mockData, selectedId, name, value, isSubmitting,
                   successMessage, mounted, timers, requests, nCalls, remoteData>>

\* the three setters and the call of updateMockData, up to the await
\* handleSubmit without setSuccessMessage("")
InvokeKeepsSuccess ==
    /\ nCalls < MaxCalls
    /\ isSubmitting' = TRUE
    /\ errorMessage' = ""
    /\ requests' = Append(requests, [args |-> MutationArgs, status |-> "sent"])
    /\ nCalls' = nCalls + 1
    /\ UNCHANGED <<store, mockData, selectedId, name, value, successMessage,
                   mounted, timers, remoteData>>
InvokeKeepsError ==
    /\ nCalls < MaxCalls
    /\ isSubmitting' = TRUE
    /\ successMessage' = ""
    /\ requests' = Append(requests, [args |-> MutationArgs, status |-> "sent"])
    /\ nCalls' = nCalls + 1
    /\ UNCHANGED <<store, mockData, selectedId, name, value, errorMessage,
                   mounted, timers, remoteData>>
Invoke ==
    /\ nCalls < MaxCalls
    /\ isSubmitting' = TRUE
    /\ errorMessage' = ""
    /\ successMessage' = ""
    /\ requests' = Append(requests, [args |-> MutationArgs, status |-> "sent"])
    /\ nCalls' = nCalls + 1
    /\ UNCHANGED <<store, mockData, selectedId, name, value, mounted, timers,
                   remoteData>>

handleSubmitValueFirst ==
    IF NoSelection THEN Reject(MsgNoSelection)
    ELSE IF BadValue THEN Reject(MsgBadValue)
    ELSE IF EmptyName THEN Reject(MsgEmptyName)
    ELSE Invoke
handleSubmit ==
    IF NoSelection THEN Reject(MsgNoSelection)
    ELSE IF EmptyName THEN Reject(MsgEmptyName)
    ELSE IF BadValue THEN Reject(MsgBadValue)
    ELSE Invoke

\* the user presses the submit button
SubmitClick ==
    /\ FormRendered
    /\ ~submitDisabled
    /\ handleSubmit

\* a submit event reaches the form's onSubmit without the button
SubmitEvent ==
    /\ FormRendered
    /\ handleSubmit

(***************************************************************************)
(* The backend runs the mutation.                                          *)
(***************************************************************************)
ServerApply ==
    \E i \in 1..Len(requests) :
        /\ requests[i].status = "sent"
        /\ HasRow(store, requests[i].args.id)
        /\ store' = updateMockData(store, requests[i].args)
        /\ requests' = [requests EXCEPT ![i] =
               [args |-> @.args, status |-> "fulfilled",
                result |-> updateMockDataResult(@.args)]]
        /\ UNCHANGED <<mockData, formVars, mounted, timers, nCalls, remoteData>>

Remove(s, i) == SubSeq(s, 1, i - 1) \o SubSeq(s, i + 1, Len(s))

(***************************************************************************)
(* handleSubmit, after the await.  A state setter of a form that is no     *)
(* longer mounted has no effect; setTimeout is not a state setter.         *)
(***************************************************************************)
onFulfilledNoTimer ==
    /\ IF mounted
       THEN /\ successMessage' = MsgSuccess
            /\ isSubmitting' = FALSE
       ELSE UNCHANGED <<successMessage, isSubmitting>>
    /\ UNCHANGED <<store, mockData, selectedId, name, value, errorMessage,
                   mounted, timers, nCalls, remoteData>>
onFulfilled ==
    /\ IF mounted
       THEN /\ successMessage' = MsgSuccess
            /\ isSubmitting' = FALSE
       ELSE UNCHANGED <<successMessage, isSubmitting>>
    /\ timers' = timers + 1
    /\ UNCHANGED <<store, mockData, selectedId, name, value, errorMessage,
                   mounted, nCalls, remoteData>>

\* setIsSubmitting(false) at the end of the try block, not in finally
onRejectedStaysSubmitting(error) ==
    /\ IF mounted
       THEN errorMessage' = MsgFailed(error)
       ELSE UNCHANGED errorMessage
    /\ UNCHANGED <<store, mockData, selectedId, name, value, isSubmitting,
                   successMessage, mounted, timers, nCalls, remoteData>>
onRejectedNoReason(error) ==
    /\ IF mounted
       THEN /\ errorMessage' = "Failed to update record."
            /\ isSubmitting' = FALSE
       ELSE UNCHANGED <<errorMessage, isSubmitting>>
    /\ UNCHANGED <<store, mockData, selectedId, name, value, successMessage,
                   mounted, timers, nCalls, remoteData>>
onRejected(error) ==
    /\ IF mounted
       THEN /\ errorMessage' = MsgFailed(error)
            /\ isSubmitting' = FALSE
       ELSE UNCHANGED <<errorMessage, isSubmitting>>
    /\ UNCHANGED <<store, mockData, selectedId, name, value, successMessage,
                   mounted, timers, nCalls, remoteData>>

MutationResolved ==
    \E i \in 1..Len(requests) :
        /\ requests[i].status = "fulfilled"
        /\ requests' = Remove(requests, i)
        /\ onFulfilled

\* a catch block that calls updateMockData again
MutationRejectedRetries ==
    \E i \in 1..Len(requests) :
        /\ requests[i].status = "sent"
        /\ nCalls < MaxCalls
        /\ nCalls' = nCalls + 1
        /\ UNCHANGED <<store, mockData, formVars, mounted, timers, requests, remoteData>>
\* the call fails (network, backend) and the promise is rejected with reason r
MutationRejected ==
    \E i \in 1..Len(requests), r \in FailureReasons :
        /\ requests[i].status = "sent"
        /\ requests' = Remove(requests, i)
        /\ onRejected(r)

\* the callback given to setTimeout
TimerFire ==
    /\ timers > 0
    /\ timers' = timers - 1
    /\ IF mounted THEN successMessage' = "" ELSE UNCHANGED successMessage
    /\ UNCHANGED <<store, mockData, selectedId, name, value, isSubmitting,
                   errorMessage, mounted, requests, nCalls, remoteData>>

\* the router leaves /update: the state of the instance is discarded
Unmount ==
    /\ mounted
    /\ mounted' = FALSE
    /\ mockData' = Undefined
    /\ selectedId' = ""
    /\ name' = <<>>
    /\ value' = <<>>
    /\ isSubmitting' = FALSE
    /\ successMessage' = ""
    /\ errorMessage' = ""
    /\ UNCHANGED <<store, timers, requests, nCalls, remoteData>>

(***************************************************************************)
(* The form as the user drives it: every handler runs from an enabled      *)
(* control.                                                                *)
(***************************************************************************)
Next ==
    \/ Deliver
    \/ DeliverView
    \/ SelectRecord
    \/ EditName
    \/ EditValue
    \/ SubmitClick
    \/ ServerApply
    \/ MutationResolved
    \/ MutationRejected
    \/ TimerFire
    \/ Unmount

Spec == Init /\ [][Next]_vars

(***************************************************************************)
(* The handler below the controls: handleSubmit is the form's onSubmit and *)
(* has no guard of its own, so a submit event that does not come from the  *)
(* button runs it in any state of the rendered form.  The table holds at   *)
(* most one record here.                                                   *)
(***************************************************************************)
NextHandler == Next \/ SubmitEvent

InitHandler == Init /\ Len(store) <= 1

SpecHandler == InitHandler /\ [][NextHandler]_vars

\* handleRecordSelect takes e.target.value as it is, so below the selector
\* it runs with any id
NextSelectHandler == Next \/ SelectEvent

SpecSelectHandler == InitHandler /\ [][NextSelectHandler]_vars

\* the timer callback runs once its delay has passed
LiveSpec == Spec /\ WF_vars(TimerFire)

(***************************************************************************)
(* The page under any record set: the delivered array need not be the      *)
(* table of this model.                                                    *)
(***************************************************************************)
NextEnv == Next \/ DeliverAny

SpecEnv == Init /\ [][NextEnv]_vars

\* the same with a table of at most one record
SpecEnvSmall == InitHandler /\ [][NextEnv]_vars

(***************************************************************************)
(* A second browser: its page subscribes to the same query, and its Update *)
(* Form submits patches of records of its own snapshot.  The table holds   *)
(* at most one record here.                                                *)
(***************************************************************************)
RemoteNameTexts == {<<" ">>, <<"b", " ">>}
RemoteValueTexts == {<<"2">>, <<"a">>}

\* a page that fetches once and does not subscribe
DeliverRemoteOnce ==
    /\ remoteData = Undefined
    /\ remoteData' = Loaded(getMockData(store))
    /\ UNCHANGED <<store, mockData, formVars, mounted, timers, requests, nCalls>>
DeliverRemote ==
    /\ remoteData # Loaded(getMockData(store))
    /\ remoteData' = Loaded(getMockData(store))
    /\ UNCHANGED <<store, mockData, formVars, mounted, timers, requests, nCalls>>

\* the other form's handleSubmit with its drafts, and the backend running
\* the mutation it invokes
RemoteSubmitUntrimmed ==
    /\ remoteData.defined
    /\ \E i \in 1..Len(remoteData.items), n \in RemoteNameTexts, v \in RemoteValueTexts :
          LET id == remoteData.items[i]._id IN
          /\ n # <<>>
          /\ ~(v = <<>> \/ isNaN(Number(v)))
          /\ HasRow(store, id)
          /\ store' = updateMockData(store,
                          [id |-> id, name |-> n, value |-> Number(v).val])
    /\ UNCHANGED <<mockData, formVars, mounted, timers, requests, nCalls, remoteData>>
RemoteSubmit ==
    /\ remoteData.defined
    /\ \E i \in 1..Len(remoteData.items), n \in RemoteNameTexts, v \in RemoteValueTexts :
          LET id == remoteData.items[i]._id IN
          /\ Trim(n) # <<>>
          /\ ~(v = <<>> \/ isNaN(Number(v)))
          /\ HasRow(store, id)
          /\ store' = updateMockData(store,
                          [id |-> id, name |-> Trim(n), value |-> Number(v).val])
    /\ UNCHANGED <<mockData, formVars, mounted, timers, requests, nCalls, remoteData>>

NextClients == Next \/ DeliverRemote \/ RemoteSubmit

SpecClients == InitHandler /\ [][NextClients]_vars

\* every subscribed page receives the current query result
LiveClients ==
    SpecClients /\ WF_vars(Deliver) /\ WF_vars(DeliverView) /\ WF_vars(DeliverRemote)

(***************************************************************************)
(* Properties.                                                             *)
(***************************************************************************)
\* empty or white space only
Blank(s) == \A i \in 1..Len(s) : s[i] = " "
\* the drafts pass the three checks of submit()
DraftsAccepted ==
    selectedId # "" /\ ~Blank(name) /\ value # <<>> /\ ~Number(value).nan

\* C1: with a record selected, a name that is not blank and a value that
\* parses as a number, a submit appends exactly one mutation call with
\* id = selectedId, name = trim(name), value = Number(value), sets
\* isSubmitting and clears both messages.
C1_SubmitInvokesMutationOnce ==
    [][(SubmitEvent /\ DraftsAccepted) =>
        /\ requests' = Append(requests,
              [args |-> [id |-> selectedId, name |-> Trim(name),
                         value |-> Number(value).val],
               status |-> "sent"])
        /\ nCalls' = nCalls + 1
        /\ isSubmitting' = TRUE
        /\ errorMessage' = ""
        /\ successMessage' = ""]_vars

\* a padded name was submitted: the call carries the trimmed name
C1_Witness ==
    /\ selectedId = "r1" /\ name = <<" ", "a", " ">> /\ value = <<"2">>
    /\ isSubmitting /\ errorMessage = "" /\ nCalls = 1
    /\ requests = <<[args |-> [id |-> "r1", name |-> <<"a">>, value |-> 2],
                     status |-> "sent"]>>

\* C2: a submit reports the first failing check in the order no selection,
\* blank name, value not a number; later checks do not contribute.
C2_ValidationOrder ==
    [][SubmitEvent =>
        IF selectedId = "" THEN errorMessage' = MsgNoSelection
        ELSE IF Blank(name) THEN errorMessage' = MsgEmptyName
        ELSE IF value = <<>> \/ Number(value).nan THEN errorMessage' = MsgBadValue
        ELSE errorMessage' = ""]_vars

\* all three checks fail at once and the first one is reported
C2_Witness ==
    /\ selectedId = "" /\ name = <<" ">> /\ value = <<"a">>
    /\ errorMessage = MsgNoSelection

\* C3: a submit with no record selected invokes no mutation and shows
\* "Please select a record to update.", whatever the drafts hold.
C3_NoSelectionRejected ==
    [][(SubmitEvent /\ selectedId = "") =>
        /\ errorMessage' = MsgNoSelection
        /\ UNCHANGED <<requests, nCalls, store>>]_vars

\* nothing selected, drafts that would pass, and the message is shown
C3_Witness ==
    /\ selectedId = "" /\ name = <<"a">> /\ value = <<"2">>
    /\ errorMessage = MsgNoSelection /\ nCalls = 0

\* C4: a submit with a record selected and a blank name invokes no
\* mutation and shows "Name cannot be empty.".
C4_BlankNameRejected ==
    [][(SubmitEvent /\ selectedId # "" /\ Blank(name)) =>
        /\ errorMessage' = MsgEmptyName
        /\ UNCHANGED <<requests, nCalls, store>>]_vars

\* a name of white space only was rejected
C4_Witness ==
    /\ selectedId # "" /\ name = <<" ">> /\ value = <<"2">>
    /\ errorMessage = MsgEmptyName /\ nCalls = 0

\* C5: a submit with a record selected, a name that is not blank and a
\* value that is no number (the empty text included) invokes no mutation
\* and shows "Value must be a valid number.".
C5_BadValueRejected ==
    [][(SubmitEvent /\ selectedId # "" /\ ~Blank(name)
            /\ (value = <<>> \/ Number(value).nan)) =>
        /\ errorMessage' = MsgBadValue
        /\ UNCHANGED <<requests, nCalls, store>>]_vars

\* a non-numeric value was rejected
C5_Witness ==
    /\ selectedId # "" /\ name = <<"a">> /\ value = <<"a">>
    /\ errorMessage = MsgBadValue /\ nCalls = 0

\* C6: a submit that fails validation changes the error message only:
\* selection, drafts, isSubmitting (false before and after), the success
\* message, the calls in flight and the store stay as they were.
C6_RejectedSubmitFrame ==
    [][(SubmitEvent /\ ~DraftsAccepted) =>
        /\ isSubmitting = FALSE
        /\ UNCHANGED <<selectedId, name, value, isSubmitting, successMessage,
                       requests, nCalls, store, mockData, timers, mounted>>]_vars

\* a failed validation after a success whose message is still shown
C6_Witness ==
    /\ selectedId # "" /\ Blank(name) /\ errorMessage = MsgEmptyName
    /\ successMessage = MsgSuccess /\ ~isSubmitting /\ requests = <<>>

\* C7: when the call of a mounted form is fulfilled, isSubmitting is false
\* again, the success message is shown and no error message is.
C7_SuccessReturnsToIdle ==
    [][(MutationResolved /\ mounted) =>
        /\ isSubmitting' = FALSE
        /\ successMessage' = MsgSuccess
        /\ errorMessage' = ""]_vars

\* the second call succeeded
C7_Witness ==
    /\ mounted /\ successMessage = MsgSuccess /\ errorMessage = ""
    /\ ~isSubmitting /\ requests = <<>> /\ nCalls = 2

\* C8: a success message is eventually cleared, the timer being the only
\* step that is required to happen.
C8_SuccessMessageEventuallyCleared ==
    (successMessage = MsgSuccess) ~> (successMessage = "")

\* the success message is shown and its timer is pending
C8_Witness ==
    /\ mounted /\ successMessage = MsgSuccess /\ timers = 1 /\ nCalls = 1

\* C9: when the call of a mounted form is rejected with reason r, the error
\* message is "Failed to update record: " followed by r, no success message
\* is shown, isSubmitting is false and the controls of a form with a
\* selection are enabled.
C9_FailureShowsReason ==
    [][(MutationRejected /\ mounted) =>
        /\ \E r \in FailureReasons : errorMessage' = MsgFailed(r)
        /\ successMessage' = ""
        /\ isSubmitting' = FALSE
        /\ selectedId' # "" =>
              ~selectDisabled' /\ ~nameDisabled' /\ ~valueDisabled' /\ ~submitDisabled']_vars

\* a rejected call left its reason on the form
C9_Witness ==
    /\ mounted /\ errorMessage = "Failed to update record: Network error"
    /\ successMessage = "" /\ ~isSubmitting /\ selectedId # ""
    /\ requests = <<>>

\* C10: while isSubmitting, the selector, both fields and the button are
\* disabled, and a mounted form is submitting as long as its call has not
\* settled.
C10_DisabledWhileSubmitting ==
    /\ isSubmitting =>
          selectDisabled /\ nameDisabled /\ valueDisabled /\ submitDisabled
    /\ (mounted /\ requests # <<>>) => isSubmitting

\* the backend has run the mutation and the form still waits for the answer
C10_Witness ==
    /\ FormRendered /\ isSubmitting /\ Len(requests) = 1
    /\ requests[1].status = "fulfilled"

\* C11: at most one mutation call of the form is in flight at any time.
C11_OneCallInFlight == Len(requests) <= 1

\* a second call was invoked after the first had settled
C11_Witness == mounted /\ Len(requests) = 1 /\ nCalls = 2

\* C12: from the invocation of the call to its settlement, selectedId, name
\* and value of the mounted form do not change.
C12_DraftsFrozenInFlight ==
    [][(requests # <<>> /\ mounted') => UNCHANGED <<selectedId, name, value>>]_vars

\* the backend has answered, the drafts are still those of the call
C12_Witness ==
    /\ FormRendered /\ Len(requests) = 1 /\ requests[1].status = "fulfilled"
    /\ selectedId = requests[1].args.id /\ name = <<" ", "a", " ">>
    /\ requests[1].args.name = <<"a">>
    /\ mockData = Loaded(store)

\* C13: with a non-empty record set on screen, name, value and submit are
\* disabled while nothing is selected, and name and value are enabled when a
\* record is selected and no submission is in progress.
C13_EnablementPolicy ==
    FormRendered =>
        /\ selectedId = "" => nameDisabled /\ valueDisabled /\ submitDisabled
        /\ (selectedId # "" /\ ~isSubmitting) => ~nameDisabled /\ ~valueDisabled

\* the selection was given up again: the drafts remain, the fields are disabled
C13_Witness ==
    FormRendered /\ selectedId = "" /\ name # <<>> /\ nameDisabled /\ submitDisabled

\* the decimal text of the numbers that occur in the record sets of the model
DecimalText(n) ==
    CASE n = 0 -> <<"0">>
      [] n = 1 -> <<"1">>
      [] n = 2 -> <<"2">>
      [] n = 10 -> <<"1", "0">>

\* C14: selecting the id of a record of the loaded set makes it the
\* selection, copies the record's name and the decimal text of its value
\* into the drafts and clears both messages.
C14_SelectPopulates ==
    [][(SelectRecord /\ selectedId' # "") =>
        LET rec == mockData.items[CHOOSE i \in 1..Len(mockData.items) :
                                     mockData.items[i]._id = selectedId'] IN
        /\ name' = rec.name
        /\ value' = DecimalText(rec.value)
        /\ successMessage' = ""
        /\ errorMessage' = ""]_vars

\* the only call succeeded, its timer is pending and a later selection has
\* cleared the success message and replaced the drafts
C14_Witness ==
    /\ mounted /\ nCalls = 1 /\ requests = <<>> /\ timers = 1
    /\ successMessage = "" /\ errorMessage = ""
    /\ selectedId = "r2" /\ name = <<"b">> /\ value = <<"1", "0">>

\* C15: a new snapshot, whatever it holds, changes none of selectedId, name,
\* value, isSubmitting and the two messages of the mounted form.
C15_SnapshotLeavesForm ==
    [][(mounted' /\ mockData' # mockData) =>
        UNCHANGED <<selectedId, name, value, isSubmitting, successMessage,
                    errorMessage>>]_vars

\* the snapshot on screen no longer holds the selected record
C15_Witness ==
    /\ FormRendered /\ selectedId = "r1" /\ name = <<"a">>
    /\ mockData = Loaded(<<SeedRecord(2)>>)

\* C16: once the form is discarded, a settling call or a firing timer
\* updates no state of the form and starts no timer.
C16_DiscardedFormUntouched ==
    [][~mounted => (UNCHANGED formVars /\ timers' <= timers)]_vars

\* C17: a timer clears a shown success message only if it is the timer of
\* that message: no timer of an earlier success is pending beside it.
C17_OnlyOwnTimerClears ==
    [][(TimerFire /\ successMessage = MsgSuccess) => timers' = 0]_vars

\* C18: a success message and an error message are never shown together.
C18_SingleMessage ==
    mounted => ~(successMessage # "" /\ errorMessage # "")

\* C19: each page shows its loading state exactly while its record set is
\* undefined, and its empty state only for a delivered set.
C19_LoadingIffUndefined ==
    /\ mounted =>
          /\ ("loading-container" \in UpdatePageRender) <=> (mockData = Undefined)
          /\ ("empty-state" \in UpdatePageRender) => mockData.defined
    /\ ~mounted =>
          /\ ("loading-container" \in ViewPageRender(mockData)) <=> (mockData = Undefined)
          /\ ("empty-state" \in ViewPageRender(mockData)) => mockData.defined

\* the Display View has received a set of length zero
C19_Witness == ~mounted /\ mockData = Loaded(<<>>)

\* C20: each page shows its own empty-state text exactly for a delivered set
\* of length zero, and the Update Form then shows none of its controls.
C20_EmptyStateIffEmpty ==
    /\ mounted =>
          /\ (UpdateEmptyText \in UpdatePageRender)
                <=> (mockData.defined /\ Len(mockData.items) = 0)
          /\ (mockData.defined /\ Len(mockData.items) = 0)
                => UpdatePageRender \cap Controls = {}
    /\ ~mounted =>
          ((ViewEmptyText \in ViewPageRender(mockData))
                <=> (mockData.defined /\ Len(mockData.items) = 0))

\* the set became empty under a form that holds a selection and drafts
C20_Witness ==
    /\ mounted /\ mockData = Loaded(<<>>) /\ selectedId = "r1"
    /\ name = <<" ", "a", " ">> /\ value = <<"2">>

\* C21: a mutation that succeeds with arguments {id, name, value} returns id
\* and sets the name and the value of the record with that id; that record's
\* description and creation time, every other record and the number of
\* records stay as they were.
C21_PatchFrame ==
    [][ServerApply =>
        \E i \in 1..Len(requests) :
            LET a == requests[i].args
                r == RowOf(store, a.id) IN
            /\ requests[i].status = "sent"
            /\ requests'[i].status = "fulfilled"
            /\ requests'[i].result = a.id
            /\ Len(store') = Len(store)
            /\ store'[r] = [_id |-> a.id, name |-> a.name, value |-> a.value,
                            description |-> store[r].description,
                            _creationTime |-> store[r]._creationTime]
            /\ \A j \in 1..Len(store) : j # r => store'[j] = store[j]]_vars

\* the record that has a description was patched beside another record
C21_Witness ==
    /\ Len(requests) = 1 /\ requests[1].status = "fulfilled"
    /\ requests[1].result = "r1"
    /\ store = <<[SeedRecord(1) EXCEPT !.value = 2], SeedRecord(2)>>

\* what a page shows of the record set: the options of a mounted Update
\* Form, the table rows of a Display View
Shows(data, rows) ==
    /\ data.defined
    /\ OptionRows(data) = OptionRows(Loaded(rows))
    /\ ViewTableRows(data) = ViewTableRows(Loaded(rows))

\* C22: by deliveries alone, every subscribed page (the page of this
\* browser, form or Display View, and the page of another browser) again
\* and again shows the record set as the store holds it: after a patch by
\* either client has succeeded, each page eventually shows a set that holds
\* the patched name and value or what a later patch made of them.
C22_EveryClientCatchesUp ==
    /\ []<>Shows(mockData, getMockData(store))
    /\ []<>Shows(remoteData, getMockData(store))

\* both pages show the record as the other browser's form patched it after
\* a patch of this form
C22_Witness ==
    /\ nCalls = 1 /\ requests = <<>> /\ mounted
    /\ store = <<[SeedRecord(1) EXCEPT !.name = <<"b">>, !.value = 2]>>
    /\ mockData = Loaded(store) /\ remoteData = Loaded(store)

C24_SettledMeansIdle ==
    [][/\ ((MutationResolved \/ MutationRejected) /\ mounted) => ~isSubmitting'
       /\ (mounted' /\ isSubmitting') => requests' # <<>>]_vars

\* the only call was rejected by the backend and the form is idle again
C24_Witness ==
    /\ mounted /\ ~isSubmitting /\ requests = <<>> /\ nCalls = 1
    /\ errorMessage = "Failed to update record: Server Error"

\* C25: every name the form passes to the mutation is non-empty and neither
\* starts nor ends with white space, and with seeded names that are not
\* blank no stored name is blank, whichever forms have submitted.
C25_NamesNeverBlank ==
    /\ \A i \in 1..Len(requests) :
          LET n == requests[i].args.name IN
          n # <<>> /\ ~IsSpace(n[1]) /\ ~IsSpace(n[Len(n)])
    /\ \A i \in 1..Len(store) : ~Blank(store[i].name)

\* the other form has stored its padded name trimmed, and this form's call
\* carries its padded draft trimmed
C25_Witness ==
    /\ Len(store) = 1 /\ store[1].name = <<"b">>
    /\ Len(requests) = 1 /\ requests[1].status = "sent"
    /\ name = <<" ", "a", " ">> /\ requests[1].args.name = <<"a">>

\* the ids of the documents of a table
IdsOf(db) == {db[i]._id : i \in 1..Len(db)}

\* C26: no step creates or deletes a record or changes an id: the table
\* keeps its ids and its number of records whatever the forms of both
\* browsers select, edit and submit.
C26_IdsStable ==
    [][IdsOf(store') = IdsOf(store) /\ Len(store') = Len(store)]_vars

\* the record was renamed by the other form and then patched by this one
C26_Witness ==
    /\ store = <<[SeedRecord(1) EXCEPT !.name = <<"b">>, !.value = 0]>>
    /\ nCalls = 1 /\ requests = <<>>

\* the description cell is right for the description it renders
CellShows(cell, description) ==
    /\ cell.em <=> description = <<>>
    /\ cell.em => cell.text = None
    /\ description # <<>> => cell.text = description[1]

\* C27: on both pages a description is rendered as the placeholder None
\* exactly when it is absent; a present description, the empty string
\* included, is rendered as it is.
C27_PlaceholderIffAbsent ==
    /\ ~mounted =>
          LET rows == ViewTableRows(mockData) IN
          \A i \in 1..Len(rows) :
              CellShows(rows[i].description, mockData.items[i].description)
    /\ mounted =>
          \A i \in 1..Len(RecordDetails) :
              \E j \in 1..Len(mockData.items) :
                  /\ mockData.items[j]._id = selectedId
                  /\ CellShows(RecordDetails[i], mockData.items[j].description)

\* the Display View shows a record whose description is the empty string
\* above a record that has none
C27_Witness ==
    /\ ~mounted /\ mockData = Loaded(<<ChangedRecord, SeedRecord(2)>>)
    /\ ViewTableRows(mockData)[1].description = [em |-> FALSE, text |-> <<>>]
    /\ ViewTableRows(mockData)[2].description = [em |-> TRUE, text |-> None]

\* C28: the query returns the table, every record of it in its order, and
\* for a delivered set that is not empty the Display View renders the table
\* with one row per record of the set, in order, each with the name and the
\* decimal text of the value of its record.
C28_OneRowPerRecord ==
    /\ Len(getMockData(store)) = Len(store)
    /\ \A i \in 1..Len(store) : getMockData(store)[i] = store[i]
    /\ (~mounted /\ mockData.defined /\ Len(mockData.items) # 0) =>
          LET rows == ViewTableRows(mockData) IN
          /\ "data-table" \in ViewPageRender(mockData)
          /\ Len(rows) = Len(mockData.items)
          /\ \A i \in 1..Len(rows) :
                /\ rows[i].key = mockData.items[i]._id
                /\ rows[i].name = mockData.items[i].name
                /\ rows[i].value = DecimalText(mockData.items[i].value)

\* the Display View shows both seeded records
C28_Witness ==
    /\ ~mounted /\ mockData = Loaded(<<SeedRecord(1), SeedRecord(2)>>)
    /\ Len(ViewTableRows(mockData)) = 2
    /\ ViewTableRows(mockData)[2].name = <<"b">>
    /\ ViewTableRows(mockData)[2].value = <<"1", "0">>

\* C29: for a delivered set of length zero the Display View shows the page
\* description and the info box beside the empty-state message.
C29_EmptyViewShowsInfo ==
    (~mounted /\ mockData.defined /\ Len(mockData.items) = 0) =>
        {"empty-state", "page-description", "info-box"} \subseteq ViewPageRender(mockData)

\* C30: for a delivered set of length zero the Update Form shows its info
\* box.
C30_EmptyFormShowsInfo ==
    (mounted /\ mockData.defined /\ Len(mockData.items) = 0) =>
        "info-box" \in UpdatePageRender

\* C31: the drafts of a selection are not refreshed by a delivery or by a
\* patch of the other form, a submit passes name and value as the drafts
\* hold them, and the backend writes both whatever the record holds by
\* then: the later writer wins on both fields.
C31_LastWriterWins ==
    [][/\ (mounted' /\ (mockData' # mockData \/ store' # store)) =>
            UNCHANGED <<selectedId, name, value>>
       /\ Len(requests') > Len(requests) =>
            requests'[Len(requests')].args =
                [id |-> selectedId, name |-> Trim(name), value |-> Number(value).val]
       /\ \A i \in 1..Len(requests) :
            (/\ i <= Len(requests')
             /\ requests[i].status = "sent"
             /\ requests'[i].status = "fulfilled") =>
                LET a == requests[i].args
                    r == RowOf(store', a.id) IN
                /\ store'[r].name = a.name
                /\ store'[r].value = a.value]_vars

\* this form selected the seeded record, the other form renamed it and
\* changed its value, this form was shown that, and its only call, made
\* with an edited name and the value it had on selection, has put the old
\* value back
C31_Witness ==
    /\ nCalls = 1 /\ Len(requests) = 1 /\ requests[1].status = "fulfilled"
    /\ name = <<" ", "a", " ">> /\ value = <<"1">>
    /\ mockData = Loaded(<<[SeedRecord(1) EXCEPT !.name = <<"b">>, !.value = 2]>>)
    /\ store = <<SeedRecord(1)>>

\* the selected record is not in the set on screen
StaleSelection ==
    /\ FormRendered /\ selectedId # ""
    /\ \A i \in 1..Len(mockData.items) : mockData.items[i]._id # selectedId

\* C32: a new snapshot leaves selectedId as it is, and with a set on screen
\* that no longer holds the selected record the name, value and submit
\* controls of an idle form are enabled and a submit with valid drafts
\* invokes the mutation with that id.
C32_SelectionNotRevalidated ==
    [][/\ (mounted' /\ mockData' # mockData) => selectedId' = selectedId
       /\ (StaleSelection /\ ~isSubmitting) =>
            ~nameDisabled /\ ~valueDisabled /\ ~submitDisabled
       /\ (StaleSelection /\ DraftsAccepted /\ SubmitClick) =>
            /\ Len(requests') = Len(requests) + 1
            /\ requests'[Len(requests')].args.id = selectedId
            /\ requests'[Len(requests')].status = "sent"]_vars

\* the set on screen holds the second record only, and a call for the
\* first, still selected, record is in flight
C32_Witness ==
    /\ StaleSelection /\ mockData = Loaded(<<SeedRecord(2)>>)
    /\ selectedId = "r1" /\ isSubmitting
    /\ Len(requests) = 1 /\ requests[1].status = "sent" /\ requests[1].args.id = "r1"

\* C33: while the form is submitting no success message and no error
\* message is set: the invocation clears both and nothing sets one before
\* the call settles.
C33_NoMessageWhileSubmitting ==
    (mounted /\ isSubmitting) => (successMessage = "" /\ errorMessage = "")

\* a second call is in flight while the timer of the first success is
\* still pending
C33_Witness ==
    /\ mounted /\ isSubmitting /\ successMessage = "" /\ errorMessage = ""
    /\ nCalls = 2 /\ Len(requests) = 1 /\ timers = 1

C35_IdsFromSnapshots ==
    [][/\ selectedId' # selectedId =>
            \/ selectedId' = ""
            \/ \E i \in 1..Len(mockData.items) : mockData.items[i]._id = selectedId'
       /\ Len(requests') > Len(requests) =>
            /\ selectedId # ""
            /\ requests'[Len(requests')].args.id = selectedId]_vars

\* the id in flight was taken from a delivered set; the table does not
\* hold it
C35_Witness ==
    /\ Len(requests) = 1 /\ requests[1].args.id = "r2" /\ selectedId = "r2"
    /\ ~HasRow(store, "r2")
    /\ mockData = Loaded(<<SeedRecord(2)>>)

\* the id is the id of a record of the set on screen
InSet(id) == \E i \in 1..Len(mockData.items) : mockData.items[i]._id = id

C37_BlankValueIsZero ==
    [][/\ (selectedId # "" /\ ~Blank(name) /\ value = <<>> /\ SubmitClick) =>
            /\ errorMessage' = MsgBadValue
            /\ UNCHANGED <<requests, nCalls>>
       /\ (selectedId # "" /\ ~Blank(name) /\ value # <<>> /\ Blank(value)
              /\ SubmitClick) =>
            /\ Len(requests') = Len(requests) + 1
            /\ requests'[Len(requests')].args.value = 0
            /\ errorMessage' = ""]_vars

\* the value text of one space was submitted and the record now holds 0
C37_Witness ==
    /\ value = <<" ">> /\ selectedId = "r1"
    /\ Len(requests) = 1 /\ requests[1].status = "fulfilled"
    /\ requests[1].args.value = 0 /\ store[1].value = 0

====
